---- MODULE Spec2Model ----
(***************************************************************************)
(* Llama Bridge: document upload / retrieval-augmented query service.      *)
(* The model covers the text splitter (backend/app/text_splitter.py), the  *)
(* loader (data_loader.py), the vector store wrapper (vector_store.py),    *)
(* the streaming answer generator (rag_chain.py) and the two HTTP handlers *)
(* that orchestrate them (main.py).                                        *)
(*                                                                         *)
(* Texts are sequences of one-character strings, so that stripping,        *)
(* separator search and slicing are computed and not assumed.              *)
(***************************************************************************)
EXTENDS Integers, Sequences, FiniteSets, TLC

(***************************************************************************)
(* Bounds of the model.                                                    *)
(***************************************************************************)
MaxLen == 5
MaxChunkSize == 3
MaxRequests == 3
MaxFragments == 2
MaxBatchSize == 1

(***************************************************************************)
(* Strings.                                                                *)
(***************************************************************************)
Whitespace == {" ", "\n"}

RECURSIVE lstrip(_)
lstrip(t) ==
    IF t = <<>> THEN <<>>
    ELSE IF Head(t) \in Whitespace THEN lstrip(Tail(t)) ELSE t

RECURSIVE rstrip(_)
rstrip(t) ==
    IF t = <<>> THEN <<>>
    ELSE IF t[Len(t)] \in Whitespace THEN rstrip(SubSeq(t, 1, Len(t) - 1)) ELSE t

\* str.strip()
strip(t) == rstrip(lstrip(t))

\* str.lower() on the letters the model's file names use
LowerChar(c) ==
    CASE c = "P" -> "p"
      [] c = "D" -> "d"
      [] c = "F" -> "f"
      [] c = "T" -> "t"
      [] c = "X" -> "x"
      [] OTHER -> c

lower(t) == [i \in 1..Len(t) |-> LowerChar(t[i])]

\* sep occurs in t at position i (sep non-empty)
MatchAt(t, sep, i) ==
    /\ Len(sep) > 0
    /\ i + Len(sep) - 1 <= Len(t)
    /\ \A k \in 1..Len(sep) : t[i + k - 1] = sep[k]

\* re.search(re.escape(sep), t) for a non-empty literal sep
Contains(t, sep) == \E i \in 1..Len(t) : MatchAt(t, sep, i)

RECURSIVE Concat(_)
Concat(ss) == IF ss = <<>> THEN <<>> ELSE Head(ss) \o Concat(Tail(ss))

RECURSIVE FilterNonEmpty(_)
FilterNonEmpty(ss) ==
    IF ss = <<>> THEN <<>>
    ELSE IF Head(ss) = <<>> THEN FilterNonEmpty(Tail(ss))
         ELSE <<Head(ss)>> \o FilterNonEmpty(Tail(ss))

(***************************************************************************)
(* RecursiveCharacterTextSplitter as configured by TextSplitter.__init__:  *)
(* literal separators, keep_separator on (each separator stays at the      *)
(* start of the piece that follows it), strip_whitespace on, len as the    *)
(* length function.                                                        *)
(***************************************************************************)
Separators ==
    << <<"\n", "\n">>, <<"\n">>, <<".", " ">>, <<"!", " ">>, <<"?", " ">>,
       <<";", " ">>, <<":", " ">>, <<",", " ">>, <<" ">>, <<>> >>

\* the pieces of t between the non-overlapping leftmost occurrences of sep
RECURSIVE Pieces(_, _, _, _)
Pieces(t, sep, i, cur) ==
    IF i > Len(t) THEN <<cur>>
    ELSE IF MatchAt(t, sep, i)
         THEN <<cur>> \o Pieces(t, sep, i + Len(sep), <<>>)
         ELSE Pieces(t, sep, i + 1, Append(cur, t[i]))

\* split on sep keeping it in front of the following piece; "" splits into
\* characters; empty pieces are dropped
split_text_with_regex(t, sep) ==
    IF sep = <<>>
    THEN [i \in 1..Len(t) |-> <<t[i]>>]
    ELSE LET ps == Pieces(t, sep, 1, <<>>)
         IN  FilterNonEmpty([k \in 1..Len(ps) |->
                                IF k = 1 THEN ps[1] ELSE sep \o ps[k]])

\* join with the empty separator, strip, None (here <<>>) when nothing is left
join_docs(docs) == strip(Concat(docs))

RECURSIVE SumLen(_)
SumLen(ss) == IF ss = <<>> THEN 0 ELSE Len(Head(ss)) + SumLen(Tail(ss))

\* the "keep on popping" loop of merge_splits
RECURSIVE PopOverlap(_, _, _, _)
PopOverlap(cur, len, cs, co) ==
    LET total == SumLen(cur)
    IN  IF total > co \/ (total + len > cs /\ total > 0)
        THEN PopOverlap(Tail(cur), len, cs, co)
        ELSE cur

RECURSIVE MergeLoop(_, _, _, _, _)
MergeLoop(splits, docs, cur, cs, co) ==
    IF splits = <<>>
    THEN IF join_docs(cur) = <<>> THEN docs ELSE Append(docs, join_docs(cur))
    ELSE LET d == Head(splits)
             total == SumLen(cur)
             flush == total + Len(d) > cs /\ Len(cur) > 0
             docs1 == IF flush /\ join_docs(cur) # <<>>
                      THEN Append(docs, join_docs(cur)) ELSE docs
             cur1 == IF flush THEN PopOverlap(cur, Len(d), cs, co) ELSE cur
         IN  MergeLoop(Tail(splits), docs1, Append(cur1, d), cs, co)

merge_splits(splits, cs, co) == MergeLoop(splits, <<>>, <<>>, cs, co)

\* index of the first separator that occurs in t ("" always does)
RECURSIVE PickSeparator(_, _, _)
PickSeparator(t, seps, i) ==
    IF i >= Len(seps) THEN Len(seps)
    ELSE IF seps[i] = <<>> \/ Contains(t, seps[i]) THEN i
         ELSE PickSeparator(t, seps, i + 1)

RECURSIVE split_text_rec(_, _, _, _)
RECURSIVE SplitLoop(_, _, _, _, _, _)
SplitLoop(splits, good, final, newSeps, cs, co) ==
    IF splits = <<>>
    THEN IF good # <<>> THEN final \o merge_splits(good, cs, co) ELSE final
    ELSE LET s == Head(splits)
         IN  IF Len(s) < cs
             THEN SplitLoop(Tail(splits), Append(good, s), final, newSeps, cs, co)
             ELSE LET f1 == IF good # <<>>
                            THEN final \o merge_splits(good, cs, co) ELSE final
                      f2 == IF newSeps = <<>>
                            THEN Append(f1, s)
                            ELSE f1 \o split_text_rec(s, newSeps, cs, co)
                  IN  SplitLoop(Tail(splits), <<>>, f2, newSeps, cs, co)

split_text_rec(t, seps, cs, co) ==
    LET i == PickSeparator(t, seps, 1)
        sep == seps[i]
        newSeps == IF sep = <<>> THEN <<>> ELSE SubSeq(seps, i + 1, Len(seps))
    IN  SplitLoop(split_text_with_regex(t, sep), <<>>, <<>>, newSeps, cs, co)

split_text(t, cs, co) == split_text_rec(t, Separators, cs, co)


(***************************************************************************)
(* TextSplitter (text_splitter.py).                                        *)
(***************************************************************************)
ChunkSize == 2000
ChunkOverlap == 400

\* the chunk documents one source document yields: non-blank chunks only,
\* stripped, each with the metadata of the document it comes from
RECURSIVE ChunkDocs(_, _)
ChunkDocs(chunks, metadata) ==
    IF chunks = <<>> THEN <<>>
    ELSE IF strip(Head(chunks)) # <<>>
         THEN <<[page_content |-> strip(Head(chunks)), metadata |-> metadata]>>
              \o ChunkDocs(Tail(chunks), metadata)
         ELSE ChunkDocs(Tail(chunks), metadata)

\* the chunks of one source document
split_document(doc, cs, co) ==
    ChunkDocs(split_text(strip(doc.page_content), cs, co), doc.metadata)

\* a slip that builds every chunk document from the whole content
split_documents_whole(documents, cs, co) ==
    Concat([i \in 1..Len(documents) |->
              LET doc == documents[i]
                  content == strip(doc.page_content)
                  chunks == split_text(content, cs, co)
              IN  ChunkDocs([k \in 1..Len(chunks) |-> content], doc.metadata)])

split_documents(documents, cs, co) ==
    Concat([i \in 1..Len(documents) |-> split_document(documents[i], cs, co)])

(***************************************************************************)
(* DataLoader (data_loader.py) and the temporary file of upload_document.  *)
(***************************************************************************)
Dot == "."
Slash == "/"

\* position of the last occurrence of c in t, 0 when there is none
RECURSIVE rfind(_, _, _)
rfind(t, c, i) ==
    IF i = 0 THEN 0 ELSE IF t[i] = c THEN i ELSE rfind(t, c, i - 1)

\* os.path.splitext(p)[1]: from the last dot of the base name on, unless
\* only dots precede it there
splitext(p) ==
    LET sepIndex == rfind(p, Slash, Len(p))
        dotIndex == rfind(p, Dot, Len(p))
    IN  IF /\ dotIndex > sepIndex
           /\ \E j \in (sepIndex + 1)..(dotIndex - 1) : p[j] # Dot
        THEN SubSeq(p, dotIndex, Len(p))
        ELSE <<>>

Digits == <<"0", "1", "2", "3", "4", "5", "6", "7", "8", "9">>

\* tempfile.NamedTemporaryFile(delete=False, suffix=...).name, n-th name
temp_file_path(n, suffix) ==
    <<"/", "t", "m", "p", "/", "t", "m", "p", Digits[n + 1]>> \o suffix

supported_extensions == { <<".", "p", "d", "f">>, <<".", "t", "x", "t">> }

\* file_path.lower().split('.')[-1]
file_extension(file_path) ==
    LET p == lower(file_path)
        dotIndex == rfind(p, Dot, Len(p))
    IN  SubSeq(p, dotIndex + 1, Len(p))

\* a loader that dispatches without the membership test
is_supported_any(file_path) == TRUE

is_supported(file_path) ==
    (<<Dot>> \o file_extension(file_path)) \in supported_extensions

\* loader.load(): PyPDFLoader gives one document per page, TextLoader one
\* document for the file
loader_load(file_path, pages) ==
    IF file_extension(file_path) = <<"p", "d", "f">>
    THEN [i \in 1..Len(pages) |->
            [page_content |-> pages[i],
             metadata |-> [source |-> file_path, page |-> i - 1]]]
    ELSE <<[page_content |-> Concat(pages),
            metadata |-> [source |-> file_path]]>>

\* the uploads the model draws from: name, parsed content, parser outcome
Files ==
    { [filename |-> <<"a", ".", "p", "d", "f">>,
       pages |-> << <<"a", " ", "b">>, <<" ">>, <<"c", "\n">> >>, corrupt |-> FALSE],
      [filename |-> <<"a", ".", "P", "D", "F">>,
       pages |-> << <<"a">> >>, corrupt |-> TRUE],
      [filename |-> <<"a", ".", "T", "x", "t">>,
       pages |-> << <<" ", "\n">> >>, corrupt |-> FALSE],
      [filename |-> <<"a", ".", "d", "o", "c", "x">>,
       pages |-> << <<"e">> >>, corrupt |-> FALSE],
      [filename |-> <<"a">>,
       pages |-> << <<"e">> >>, corrupt |-> FALSE],
      [filename |-> <<".", "p", "d", "f">>,
       pages |-> << <<"e">> >>, corrupt |-> FALSE] }

\* what the spec calls a supported upload: the name's extension is .pdf or
\* .txt, case-insensitively
HasSupportedExtension(filename) == lower(splitext(filename)) \in supported_extensions


(***************************************************************************)
(* VectorStore (vector_store.py) and the embedder it is handed.            *)
(***************************************************************************)
K == 12

\* embedding_function.embed_query: an opaque, deterministic map from a text
\* to a vector (here one number)
embed_query(text) == Len(text)

\* an id taken from the position in the upload instead of a fresh uuid
new_id_index(fresh, i) == i

\* f"doc_{uuid.uuid4()}": an id no earlier call has returned
new_id(fresh, i) == fresh

make_item(doc, id) ==
    [id |-> id, text |-> doc.page_content,
     vector |-> embed_query(doc.page_content), metadata |-> doc.metadata]

\* adding as soon as one item is prepared
ready_to_add_each(nItems, nDocuments) == TRUE

\* the preparation loop runs over all documents before the batching starts
ready_to_add(nItems, nDocuments) == nItems = nDocuments

\* the batch of create_batches that starts at item first
batch_at(items, first) ==
    SubSeq(items, first,
           IF first + MaxBatchSize - 1 < Len(items)
           THEN first + MaxBatchSize - 1 ELSE Len(items))

Range(f) == { f[i] : i \in DOMAIN f }

Abs(n) == IF n < 0 THEN -n ELSE n

\* collection.query(query_embeddings=[v], n_results=k): the k records
\* nearest to v, nearest first
RECURSIVE nearest(_, _, _)
nearest(records, v, k) ==
    IF records = {} \/ k = 0 THEN <<>>
    ELSE LET best == CHOOSE r \in records : \A o \in records :
                        \/ Abs(r.vector - v) < Abs(o.vector - v)
                        \/ Abs(r.vector - v) = Abs(o.vector - v) /\ r.id <= o.id
         IN  <<best>> \o nearest(records \ {best}, v, k - 1)

\* searching even when the collection is empty
is_empty_never(count) == FALSE

\* the early return of get_relevant_documents
is_empty(count) == count = 0

result_documents(found) ==
    [i \in 1..Len(found) |->
        [page_content |-> found[i].text, metadata |-> found[i].metadata]]

(***************************************************************************)
(* RAGChain.generate_streaming_response (rag_chain.py).                    *)
(***************************************************************************)
\* "\n\n".join(page_content of each context document)
RECURSIVE context_str(_)
context_str(context) ==
    IF context = <<>> THEN <<>>
    ELSE IF Len(context) = 1 THEN context[1].page_content
         ELSE context[1].page_content \o <<"\n", "\n">> \o context_str(Tail(context))

\* what the upstream stream may yield
Fragments == {"", "x", "y"}

\* forwarding whatever arrives
should_forward_all(chunk) == TRUE

\* if chunk:
should_forward(chunk) == chunk # ""

\* f"data: {json.dumps({'text': chunk})}\n\n"
Event(chunk) == [data |-> [text |-> chunk]]

Questions == { <<"q">> }

(***************************************************************************)
(* State.                                                                  *)
(***************************************************************************)
VARIABLES
    collection,   \* the records of the Chroma collection
    exists,       \* whether the collection still exists in the client
    nextId,       \* uuids handed out so far
    tmpFiles,     \* temporary files on disk
    up,           \* the upload request in progress
    q,            \* the query request in progress
    nUploads,     \* upload requests received
    nQueries,     \* query requests received
    sText, sSize, sOverlap, sChunks, sPc,  \* a splitter run on its own
    collName,     \* the name of the store's collection
    disk,         \* the collections earlier processes left in ./chroma_db
    replaced,     \* the records constructions have deleted from ./chroma_db
    nRestarts     \* processes ended so far

storeVars == <<collection, exists, nextId>>
splitVars == <<sText, sSize, sOverlap, sChunks, sPc>>
diskVars == <<collName, disk, replaced, nRestarts>>
vars == <<collection, exists, nextId, tmpFiles, up, q, nUploads, nQueries,
          sText, sSize, sOverlap, sChunks, sPc,
          collName, disk, replaced, nRestarts>>

UpIdle ==
    [pc |-> "idle", filename |-> <<>>, pages |-> <<>>, corrupt |-> FALSE,
     path |-> <<>>, docs |-> <<>>, chunks |-> <<>>, items |-> <<>>, next |-> 1,
     status |-> 0, detail |-> "", chunksResp |-> 0, calls |-> <<>>,
     added |-> {}, failedIn |-> "none"]

QIdle ==
    [pc |-> "idle", question |-> <<>>, docs |-> <<>>, status |-> 0,
     detail |-> "", error |-> "", calls |-> <<>>, context |-> <<>>,
     received |-> <<>>, sent |-> <<>>, frag |-> "", upstream |-> "closed",
     opens |-> 0, end |-> "none", emptyAtStart |-> FALSE]

\* between two awaits a handler runs alone on the event loop
UploadBusy == up.pc \in {"split", "embed", "add", "verify", "finish"}
QueryBusy == q.pc \in {"embed", "search", "respond"}

ApiInit ==
    /\ collection = {}
    /\ exists = TRUE
    /\ nextId = 0
    /\ tmpFiles = {}
    /\ up = UpIdle
    /\ q = QIdle
    /\ nUploads = 0
    /\ nQueries = 0

SplitOff ==
    /\ sText = <<>>
    /\ sSize = ChunkSize
    /\ sOverlap = ChunkOverlap
    /\ sChunks = <<>>
    /\ sPc = "off"

\* f"collection_{uuid.uuid4()}": a name no earlier process has used
fresh_name(n) == [kind |-> "uuid", id |-> Digits[n + 1]]

\* a name passed to VectorStore(collection_name)
given_name(name) == [kind |-> "given", id |-> name]

\* main.py builds its store with VectorStore(): no name given
DiskInit ==
    /\ collName = fresh_name(0)
    /\ disk = {}
    /\ replaced = {}
    /\ nRestarts = 0

Init == ApiInit /\ SplitOff /\ DiskInit


(***************************************************************************)
(* POST /upload (main.py, upload_document).                                *)
(***************************************************************************)
\* except Exception as e: raise HTTPException(status_code=500, detail=str(e))
UploadFails(stage, e, call) ==
    up' = [up EXCEPT !.pc = "done", !.status = 500, !.detail = e,
                     !.failedIn = stage, !.calls = Append(@, call)]

\* "chunks" of the response, from the pages instead of the chunks
response_chunks_docs(documents, chunks) == Len(documents)

\* "chunks": len(chunks)
response_chunks(documents, chunks) == Len(chunks)

\* the request arrives; the temporary file is created, then the handler
\* awaits the upload's content
UploadReceive(f) ==
    /\ up.pc = "idle"
    /\ ~QueryBusy
    /\ nUploads + nQueries + nRestarts < MaxRequests
    /\ LET path == temp_file_path(nUploads, splitext(f.filename))
       IN  /\ up' = [UpIdle EXCEPT !.pc = "reading", !.filename = f.filename,
                                   !.pages = f.pages, !.corrupt = f.corrupt,
                                   !.path = path]
           /\ tmpFiles' = tmpFiles \cup {path}
    /\ nUploads' = nUploads + 1
    /\ UNCHANGED <<storeVars, q, nQueries, splitVars, diskVars>>

\* data_loader.load_document(temp_file_path)
UploadLoad ==
    /\ up.pc = "reading"
    /\ ~QueryBusy
    /\ IF ~is_supported(up.path)
       THEN UploadFails("load", "Unsupported file extension", "load")
       ELSE IF up.corrupt
            THEN UploadFails("load", "ParseError", "load")
            ELSE up' = [up EXCEPT !.pc = "split",
                                  !.docs = loader_load(up.path, up.pages),
                                  !.calls = Append(@, "load")]
    /\ UNCHANGED <<storeVars, tmpFiles, q, nUploads, nQueries, splitVars, diskVars>>

\* text_splitter.split_documents(documents), then into store_documents
UploadSplit ==
    /\ up.pc = "split"
    /\ LET chunks == split_documents(up.docs, ChunkSize, ChunkOverlap)
       IN  up' = [up EXCEPT !.pc = IF chunks = <<>> THEN "verify" ELSE "embed",
                            !.chunks = chunks,
                            !.calls = Append(@, "split")]
    /\ UNCHANGED <<storeVars, tmpFiles, q, nUploads, nQueries, splitVars, diskVars>>

\* store_documents, one turn of the preparation loop: embed the next chunk
\* and build its item
UploadEmbed ==
    /\ up.pc = "embed"
    /\ LET i == Len(up.items) + 1
       IN  \/ /\ UploadFails("embed", "EmbeddingError", "embed")
              /\ UNCHANGED nextId
           \/ /\ up' = [up EXCEPT
                    !.items = Append(@, make_item(up.chunks[i], new_id(nextId, i - 1))),
                    !.pc = IF ready_to_add(i, Len(up.chunks)) THEN "add" ELSE "embed",
                    !.calls = Append(@, "embed")]
              /\ nextId' = nextId + 1
    /\ UNCHANGED <<collection, exists, tmpFiles, q, nUploads, nQueries, splitVars, diskVars>>

\* store_documents, one turn of the batch loop: self.collection.add(*batch)
UploadAdd ==
    /\ up.pc = "add"
    /\ LET batch == batch_at(up.items, up.next)
           after == up.next + Len(batch)
       IN  \/ /\ UploadFails("add", "StoreError", "add")
              /\ UNCHANGED collection
           \/ /\ exists
              /\ collection' = collection \cup Range(batch)
              /\ up' = [up EXCEPT
                    !.next = after,
                    !.added = @ \cup Range(batch),
                    !.calls = Append(@, "add"),
                    !.pc = IF after <= Len(up.items) THEN "add"
                           ELSE IF Len(up.items) < Len(up.chunks) THEN "embed"
                           ELSE "verify"]
    /\ UNCHANGED <<exists, nextId, tmpFiles, q, nUploads, nQueries, splitVars, diskVars>>

\* store_documents, the verification reads: collection.count() and get()
UploadVerify ==
    /\ up.pc = "verify"
    /\ \/ UploadFails("verify", "StoreError", "count")
       \/ /\ exists
          /\ up' = [up EXCEPT !.pc = "finish", !.calls = Append(@, "count")]
    /\ UNCHANGED <<storeVars, tmpFiles, q, nUploads, nQueries, splitVars, diskVars>>

\* os.unlink(temp_file_path) and the success response
UploadFinish ==
    /\ up.pc = "finish"
    /\ tmpFiles' = tmpFiles \ {up.path}
    /\ up' = [up EXCEPT !.pc = "done", !.status = 200,
                        !.chunksResp = response_chunks(up.docs, up.chunks)]
    /\ UNCHANGED <<storeVars, q, nUploads, nQueries, splitVars, diskVars>>

\* the response has been delivered
UploadReset ==
    /\ up.pc = "done"
    /\ up' = UpIdle
    /\ UNCHANGED <<storeVars, tmpFiles, q, nUploads, nQueries, splitVars, diskVars>>


(***************************************************************************)
(* POST /query (main.py, query_documents) and the streamed answer.         *)
(***************************************************************************)
\* except Exception as e: raise HTTPException(status_code=500, detail=str(e))
QueryFails(e, call) ==
    q' = [q EXCEPT !.pc = "done", !.status = 500, !.detail = e, !.error = e,
                   !.end = "http_error", !.calls = Append(@, call)]

\* the request arrives; get_relevant_documents reads collection.count()
QueryReceive(question) ==
    /\ q.pc = "idle"
    /\ ~UploadBusy
    /\ nUploads + nQueries + nRestarts < MaxRequests
    /\ nQueries' = nQueries + 1
    /\ LET fresh == [QIdle EXCEPT !.question = question,
                                  !.emptyAtStart = exists /\ collection = {},
                                  !.calls = <<"count">>]
       IN  \/ q' = [fresh EXCEPT !.pc = "done", !.status = 500,
                                 !.detail = "StoreError", !.error = "StoreError",
                                 !.end = "http_error"]
           \/ /\ exists
              /\ q' = [fresh EXCEPT
                    !.pc = IF is_empty(Cardinality(collection))
                           THEN "respond" ELSE "embed"]
    /\ UNCHANGED <<storeVars, tmpFiles, up, nUploads, splitVars, diskVars>>

\* embedding_function.embed_query(query)
QueryEmbed ==
    /\ q.pc = "embed"
    /\ \/ QueryFails("EmbeddingError", "embed")
       \/ q' = [q EXCEPT !.pc = "search", !.calls = Append(@, "embed")]
    /\ UNCHANGED <<storeVars, tmpFiles, up, nUploads, nQueries, splitVars, diskVars>>

\* self.collection.query(...), converted to documents
QuerySearch ==
    /\ q.pc = "search"
    /\ \/ QueryFails("StoreError", "search")
       \/ /\ exists
          /\ q' = [q EXCEPT
                !.pc = "respond",
                !.docs = result_documents(nearest(collection, embed_query(q.question), K)),
                !.calls = Append(@, "search")]
    /\ UNCHANGED <<storeVars, tmpFiles, up, nUploads, nQueries, splitVars, diskVars>>

\* return StreamingResponse(...): the handler is done, the response starts
\* (status line and headers) before the generator's body has run
QueryRespond ==
    /\ q.pc = "respond"
    /\ q' = [q EXCEPT !.pc = "started", !.status = 200]
    /\ UNCHANGED <<storeVars, tmpFiles, up, nUploads, nQueries, splitVars, diskVars>>

\* reopening the upstream stream after an error
on_stream_error_retry(qq, e) == [qq EXCEPT !.pc = "started", !.error = e]

\* nothing in the generator catches: the error ends the response
on_stream_error(qq, e) == [qq EXCEPT !.pc = "done", !.end = "aborted", !.error = e]

\* first iteration of the generator: the context string and prompt are
\* built and the upstream stream is opened
GenOpen ==
    /\ q.pc = "started"
    /\ ~UploadBusy
    /\ LET opened == [q EXCEPT !.context = context_str(q.docs),
                               !.calls = Append(@, "generate"),
                               !.opens = @ + 1]
       IN  \/ q' = on_stream_error([opened EXCEPT !.upstream = "failed"],
                                   "GenerationError")
           \/ q' = [opened EXCEPT !.pc = "recv", !.upstream = "open"]
    /\ UNCHANGED <<storeVars, tmpFiles, up, nUploads, nQueries, splitVars, diskVars>>

\* async for chunk in ...: the next fragment arrives
GenRecv(chunk) ==
    /\ q.pc = "recv"
    /\ ~UploadBusy
    /\ Len(q.received) < MaxFragments
    /\ q' = [q EXCEPT !.received = Append(@, chunk),
                      !.frag = chunk,
                      !.pc = IF should_forward(chunk) THEN "yield" ELSE "recv"]
    /\ UNCHANGED <<storeVars, tmpFiles, up, nUploads, nQueries, splitVars, diskVars>>

\* yield f"data: ...": the event is written to the response
GenYield ==
    /\ q.pc = "yield"
    /\ ~UploadBusy
    /\ q' = [q EXCEPT !.sent = Append(@, Event(q.frag)), !.pc = "recv"]
    /\ UNCHANGED <<storeVars, tmpFiles, up, nUploads, nQueries, splitVars, diskVars>>

\* the upstream stream ends: the generator returns, the response is complete
GenEnd ==
    /\ q.pc = "recv"
    /\ ~UploadBusy
    /\ q' = [q EXCEPT !.pc = "done", !.end = "complete", !.upstream = "ended"]
    /\ UNCHANGED <<storeVars, tmpFiles, up, nUploads, nQueries, splitVars, diskVars>>

\* the upstream stream raises while the generator waits for a fragment
GenFail ==
    /\ q.pc = "recv"
    /\ ~UploadBusy
    /\ q' = on_stream_error([q EXCEPT !.upstream = "failed"], "GenerationError")
    /\ UNCHANGED <<storeVars, tmpFiles, up, nUploads, nQueries, splitVars, diskVars>>

\* the response has been delivered
QueryReset ==
    /\ q.pc = "done"
    /\ q' = QIdle
    /\ UNCHANGED <<storeVars, tmpFiles, up, nUploads, nQueries, splitVars, diskVars>>

(***************************************************************************)
(* VectorStore.delete_collection.                                          *)
(***************************************************************************)
delete_collection ==
    /\ exists
    /\ ~UploadBusy
    /\ ~QueryBusy
    /\ exists' = FALSE
    /\ collection' = {}
    /\ UNCHANGED <<nextId, tmpFiles, up, q, nUploads, nQueries, splitVars, diskVars>>

Next ==
    \/ \E f \in Files : UploadReceive(f)
    \/ UploadLoad
    \/ UploadSplit
    \/ UploadEmbed
    \/ UploadAdd
    \/ UploadVerify
    \/ UploadFinish
    \/ UploadReset
    \/ \E question \in Questions : QueryReceive(question)
    \/ QueryEmbed
    \/ QuerySearch
    \/ QueryRespond
    \/ GenOpen
    \/ \E chunk \in Fragments : GenRecv(chunk)
    \/ GenYield
    \/ GenEnd
    \/ GenFail
    \/ QueryReset
    \/ delete_collection

Spec == Init /\ [][Next]_vars

(***************************************************************************)
(* The splitter on its own: any text over a small alphabet, any valid      *)
(* (chunk_size, chunk_overlap).                                            *)
(***************************************************************************)
Alphabet == {"a", " ", ".", "\n"}

RECURSIVE TextsOfLen(_)
TextsOfLen(n) ==
    IF n = 0 THEN { <<>> }
    ELSE { Append(t, c) : t \in TextsOfLen(n - 1), c \in Alphabet }

Texts == UNION { TextsOfLen(n) : n \in 0..MaxLen }

SplitInit ==
    /\ ApiInit
    /\ DiskInit
    /\ sText \in Texts
    /\ sSize \in 1..MaxChunkSize
    /\ sOverlap \in 0..(sSize - 1)
    /\ sChunks = <<>>
    /\ sPc = "ready"

\* TextSplitter(chunk_size, chunk_overlap).split_documents([Document(text)])
SplitRun ==
    /\ sPc = "ready"
    /\ sChunks' = split_documents(
            <<[page_content |-> sText, metadata |-> [source |-> "s"]]>>,
            sSize, sOverlap)
    /\ sPc' = "done"
    /\ UNCHANGED <<sText, sSize, sOverlap, storeVars, tmpFiles, up, q,
                   nUploads, nQueries, diskVars>>

SplitNext == SplitRun

SpecSplit == SplitInit /\ [][SplitNext]_vars


(***************************************************************************)
(* Process restart: the store of main.py is built again by                 *)
(* VectorStore.__init__ / initialize_chroma over the same ./chroma_db.     *)
(***************************************************************************)
\* the collection_name arguments drawn; "" stands for no name given
NameArgs == {"", "docs"}

\* self.collection_name = collection_name or f"collection_{uuid.uuid4()}"
collection_name(arg, n) == IF arg = "" THEN fresh_name(n) ELSE given_name(arg)

\* the records persisted under a name
stored_records(d, name) == UNION { c.records : c \in { x \in d : x.name = name } }

\* self.client.delete_collection(name=...), a missing collection ignored
after_delete(d, name) == { c \in d : c.name # name }

\* opening what is stored under the name instead of creating it anew
created_records_reuse(d, name) == stored_records(d, name)

\* self.client.create_collection(...): a new collection holds no record
created_records(d, name) == {}

\* the process ends, at any point of any request: responses in progress are
\* lost, the collection stays in ./chroma_db as it is at that moment
ProcessExit ==
    /\ up.pc # "down"
    /\ nUploads + nQueries + nRestarts < MaxRequests
    /\ nRestarts' = nRestarts + 1
    /\ disk' = IF exists
               THEN disk \cup {[name |-> collName, records |-> collection]}
               ELSE disk
    /\ up' = [UpIdle EXCEPT !.pc = "down"]
    /\ q' = [QIdle EXCEPT !.pc = "down"]
    /\ exists' = FALSE
    /\ collection' = {}
    /\ UNCHANGED <<nextId, tmpFiles, nUploads, nQueries, splitVars, collName,
                   replaced>>

\* the next process starts: VectorStore(arg) runs initialize_chroma, which
\* deletes what is stored under the name and creates the collection; when
\* creating raises, the error is re-raised and the process does not come up
VectorStoreInit(arg) ==
    /\ up.pc = "down"
    /\ LET name == collection_name(arg, nRestarts)
       IN  /\ replaced' = replaced \cup stored_records(disk, name)
           /\ disk' = after_delete(disk, name)
           /\ \/ UNCHANGED <<collName, collection, exists, up, q>>
              \/ /\ collName' = name
                 /\ collection' = created_records(disk, name)
                 /\ exists' = TRUE
                 /\ up' = UpIdle
                 /\ q' = QIdle
           /\ UNCHANGED <<nextId, tmpFiles, nUploads, nQueries, splitVars,
                          nRestarts>>

RestartInit ==
    /\ ApiInit
    /\ SplitOff
    /\ collName \in { collection_name(arg, 0) : arg \in NameArgs }
    /\ disk = {}
    /\ replaced = {}
    /\ nRestarts = 0

RestartNext ==
    \/ Next
    \/ ProcessExit
    \/ \E arg \in NameArgs : VectorStoreInit(arg)

SpecRestart == RestartInit /\ [][RestartNext]_vars

(***************************************************************************)
(* Properties.                                                             *)
(***************************************************************************)
Repeat(x, n) == [i \in 1..n |-> x]

Called(calls, x) == \E i \in 1..Len(calls) : calls[i] = x

RECURSIVE NonEmptyOf(_)
NonEmptyOf(fs) ==
    IF fs = <<>> THEN <<>>
    ELSE IF Head(fs) = "" THEN NonEmptyOf(Tail(fs))
         ELSE <<Head(fs)>> \o NonEmptyOf(Tail(fs))

EventsOf(fs) == [i \in 1..Len(fs) |-> [data |-> [text |-> fs[i]]]]

\* number of batches n items are stored in
Batches(n) == (n + MaxBatchSize - 1) \div MaxBatchSize

UploadDone == up.pc = "done"
UploadSucceeded == up.pc = "done" /\ up.status = 200
UploadFailed == up.pc = "done" /\ up.status = 500

\* C1: an upload whose file name has no .pdf/.txt extension (in any case,
\* or no extension at all) is answered with HTTP 500, adds no record, and
\* calls nothing but the loader: splitter, embedder and store stay untouched.
C1_UnsupportedRejected ==
    (UploadDone /\ ~HasSupportedExtension(up.filename)) =>
        /\ up.status = 500
        /\ up.detail = "Unsupported file extension"
        /\ up.added = {}
        /\ up.calls = <<"load">>

C1_Witness ==
    /\ UploadDone
    /\ ~HasSupportedExtension(up.filename)
    /\ up.status = 500
    /\ collection # {}

\* C2: a successful upload has run load, split, embed and store in that
\* order, and the chunks number of its response is the number of chunks the
\* splitter produced and the number of records the request added, the i-th
\* record carrying the i-th chunk's text and metadata.
C2_SuccessAfterPipeline ==
    UploadSucceeded =>
        LET n == Len(up.chunks)
        IN  /\ up.calls = <<"load", "split">> \o Repeat("embed", n)
                          \o Repeat("add", Batches(n)) \o <<"count">>
            /\ up.chunksResp = n
            /\ up.chunksResp = Cardinality(up.added)
            /\ Len(up.items) = n
            /\ up.added = Range(up.items)
            /\ exists => up.added \subseteq collection
            /\ \A i \in 1..n :
                  /\ up.items[i].text = up.chunks[i].page_content
                  /\ up.items[i].metadata = up.chunks[i].metadata

C2_Witness ==
    /\ UploadSucceeded
    /\ up.chunksResp = 2
    /\ Len(up.docs) = 3
    /\ Cardinality(up.added) = 2

\* C3 as stated: a query on an empty collection is never answered with 500,
\* calls neither the embedder nor the search, runs the generator with an
\* empty context, and its stream completes normally.
C3_EmptyQueryAlwaysCompletes ==
    (q.emptyAtStart /\ q.pc = "done") =>
        /\ q.status = 200
        /\ ~Called(q.calls, "embed")
        /\ ~Called(q.calls, "search")
        /\ Called(q.calls, "generate")
        /\ q.context = <<>>
        /\ q.end = "complete"

\* C3, amended: a query on an empty collection whose count read succeeds is
\* never answered with 500 (only a failing count gives 500), calls neither
\* the embedder nor the search, retrieves no document, and runs the
\* generator with an empty context; its stream completes normally exactly
\* when the upstream stream ends normally, and is aborted when the upstream
\* stream fails.
C3_EmptyQuery ==
    (q.emptyAtStart /\ q.pc # "idle") =>
        /\ ~Called(q.calls, "embed")
        /\ ~Called(q.calls, "search")
        /\ q.docs = <<>>
        /\ q.status = 500 => (q.calls = <<"count">> /\ q.error = "StoreError")
        /\ (q.pc = "done" /\ q.status = 200) =>
              /\ Called(q.calls, "generate")
              /\ q.context = <<>>
              /\ q.end = "complete" <=> q.upstream = "ended"
              /\ q.end = "aborted" <=> q.upstream = "failed"

C3_Witness ==
    /\ q.emptyAtStart
    /\ q.pc = "done"
    /\ q.status = 200
    /\ q.end = "complete"
    /\ q.context = <<>>
    /\ Len(q.sent) >= 1

\* C4 as stated: the events written are exactly the fragments received, one
\* event per fragment, none dropped, each written before the next fragment
\* is requested, and the response ends exactly when the upstream does.
C4_EveryFragmentForwarded ==
    /\ q.pc \in {"recv", "done"} => q.sent = EventsOf(q.received)
    /\ q.end = "complete" <=> q.upstream = "ended"

\* C4, amended: the events written are exactly the non-empty fragments
\* received, in arrival order, one event per fragment (none duplicated,
\* reordered or merged; an empty fragment is skipped), each written before
\* the next fragment is requested, and the response ends exactly when the
\* upstream stream ends.
C4_NonEmptyFragmentsForwarded ==
    /\ q.pc \in {"recv", "done"} => q.sent = EventsOf(NonEmptyOf(q.received))
    /\ q.pc = "yield" =>
          /\ q.frag # ""
          /\ q.frag = q.received[Len(q.received)]
          /\ Append(q.sent, Event(q.frag)) = EventsOf(NonEmptyOf(q.received))
    /\ q.end = "complete" <=> q.upstream = "ended"
    /\ q.upstream \in {"ended", "failed"} => q.pc = "done"

C4_Witness ==
    /\ q.pc = "done"
    /\ q.end = "complete"
    /\ q.received = <<"", "x">>
    /\ q.sent = <<Event("x")>>

\* C5: a query that fails before any fragment has been sent (embedding,
\* search, or opening the upstream stream) is answered with HTTP 500 whose
\* detail is the error's message, never with a started event stream.
C5_EarlyFailureIs500 ==
    (q.pc = "done" /\ q.error # "" /\ q.sent = <<>>) =>
        /\ q.status = 500
        /\ q.detail = q.error

\* the state after a mid-stream failure: aborted, opened once, and the
\* events sent are those of the fragments forwarded before the failure
C6_FailedState ==
    (q.upstream = "failed" /\ Len(q.sent) >= 1) =>
        /\ q.pc = "done"
        /\ q.end = "aborted"
        /\ q.opens = 1
        /\ q.error = "GenerationError"
        /\ q.sent = EventsOf(NonEmptyOf(q.received))

\* after a mid-stream failure the request only waits to be cleared
C6_FailedStep ==
    (q.upstream = "failed" /\ Len(q.sent) >= 1) => (q' = q \/ q' = QIdle)

\* C6: once the upstream stream has failed after a fragment was forwarded,
\* the error has ended the response abnormally, the upstream was opened once
\* and is not opened again, and nothing more is written: the events sent
\* stay as they were, none re-sent.
C6_MidStreamFailureAborts == [] C6_FailedState /\ [][C6_FailedStep]_vars

C6_Witness ==
    /\ q.upstream = "failed"
    /\ Len(q.sent) >= 1
    /\ q.end = "aborted"


\* a separator of the configured list occurs in t (the empty separator
\* occurs in every text)
Occurs(sep, t) == sep = <<>> \/ Contains(t, sep)

AtomicToken(t) == \A i \in 1..Len(Separators) : ~Occurs(Separators[i], t)

\* C7: for every text and every chunk_overlap < chunk_size, every chunk
\* split_documents returns is at most chunk_size long, unless it is a single
\* token longer than chunk_size that contains none of the configured
\* separators.
C7_ChunkLengthBound ==
    sPc = "done" =>
        \A i \in 1..Len(sChunks) :
            \/ Len(sChunks[i].page_content) <= sSize
            \/ /\ Len(sChunks[i].page_content) > sSize
               /\ AtomicToken(sChunks[i].page_content)

\* a word longer than chunk_size with no separator but the empty one in it
C7_Witness ==
    /\ sPc = "done"
    /\ sText = <<"a", "a", "a", "a", "a">>
    /\ sSize = 2
    /\ sOverlap = 1
    /\ Len(sChunks) = 4

IdsDistinct == \A r1, r2 \in collection : r1.id = r2.id => r1 = r2

\* the only steps that change the collection: a batch add of the upload in
\* progress, which keeps every record there is, and the deletion of the
\* whole collection
C8_Step ==
    \/ collection' = collection
    \/ /\ up.pc = "add"
       /\ collection \subseteq collection'
       /\ collection' \ collection \subseteq Range(up.items)
       /\ q' = q
    \/ /\ exists /\ ~exists'
       /\ collection' = {}

\* C8: record ids are pairwise distinct; no upload and no query removes or
\* alters a record that is in the collection (a query changes nothing, an
\* upload only adds its own records); records disappear only when the whole
\* collection is deleted.
C8_RecordsPersist == [] IdsDistinct /\ [][C8_Step]_vars

C8_Witness ==
    /\ Cardinality(collection) = 4
    /\ q.pc = "done"
    /\ q.status = 200
    /\ Len(q.docs) = 4

\* C9: once an upload request has finished, on whatever path, its temporary
\* file is no longer on disk.
C9_TempFileRemoved == UploadDone => up.path \notin tmpFiles

old_records == replaced \cup UNION { c.records : c \in disk }

\* a construction step: the process comes up
C11_Constructed == up.pc = "down" /\ up'.pc = "idle"

C11_Step ==
    /\ C11_Constructed =>
          /\ exists'
          /\ collection' = {}
          /\ \A c \in disk' : c.name # collName'
          /\ stored_records(disk, collName') \subseteq replaced'
          /\ collName'.kind = "uuid" => \A c \in disk : c.name # collName'
    /\ (q.pc = "search" /\ q'.pc = "respond") =>
          \A i \in DOMAIN q'.docs : \E r \in collection \ old_records :
              /\ r.text = q'.docs[i].page_content
              /\ r.metadata = q'.docs[i].metadata

\* C11: right after a VectorStore is constructed its collection exists and
\* holds no record: what was stored under the same name is deleted, and
\* with no name given the name is one no stored collection has; the records
\* persisted before a restart are never in the collection again, and a
\* search after it returns only records of the collection
C11_ConstructedEmpty ==
    [] (collection \cap old_records = {}) /\ [][C11_Step]_vars

\* a named store came up empty over records stored under its name, records
\* of an earlier process are still on disk, and a search has answered since
C11_Witness ==
    /\ nRestarts >= 1
    /\ exists
    /\ collName.kind = "given"
    /\ replaced # {}
    /\ collection = {}
    /\ q.pc = "respond"

====
